---- MODULE Spec2Model ----
(***************************************************************************)
(* Model of the text-duplicate-finder service: the EmbeddingModel          *)
(* singleton provider (src/src/embeddings.py), the HTTP handlers and the   *)
(* cosine similarity (src/src/main.py) and the request validators          *)
(* (src/src/models.py).                                                    *)
(***************************************************************************)
EXTENDS Integers, Sequences, FiniteSets, TLC

\* ------------------------------------------------------------------ bounds
NumThreads == 2     \* concurrent callers of the provider
MaxDim == 2         \* longest vector a compare request carries
MaxTextLen == 2     \* longest text, in characters
MaxBatch == 2       \* longest embed-batch list

Threads == 1..NumThreads
\* Python object identities of EmbeddingModel instances; 0 is None.
ObjIds == 1..NumThreads

\* ------------------------------------------------------------------ floats
\* Python's float, scaled down: binary floating point with Precision
\* significand bits and an ExpBits-wide exponent field (IEEE 754 double is
\* 53 and 11), gradual underflow, overflow to infinity, NaN, and
\* round-to-nearest-even on every operation.  A finite value is s * m * 2^e.
\* Zero is kept unsigned (-0.0 == 0.0 in every comparison the code makes).
Precision == 4
ExpBits == 3

Bias == 2^(ExpBits - 1) - 1
EMinUlp == 1 - Bias - (Precision - 1)
EMaxUlp == Bias - (Precision - 1)

Max(a, b) == IF a >= b THEN a ELSE b
Min(a, b) == IF a <= b THEN a ELSE b
Abs(a) == IF a < 0 THEN -a ELSE a

\* A float is kept as one integer, ordered as the floats are (as the bit patterns
\* of IEEE 754 are): s * (2^Precision * (e - EMinUlp) + m), infinity one exponent
\* above the largest finite value, NaN a code of its own.
InfCode == 2^Precision * (EMaxUlp + 1 - EMinUlp) + 2^(Precision - 1)
FNaN == 2^Precision * (EMaxUlp + 2 - EMinUlp)
FZero == 0
FInf(sg) == sg * InfCode

IsNaN(a) == a = FNaN
IsInf(a) == Abs(a) = InfCode
IsZero(a) == a = 0
Sign(a) == IF a < 0 THEN -1 ELSE 1
Mant(a) == Abs(a) % 2^Precision
Expo(a) == Abs(a) \div 2^Precision + EMinUlp

\* Number of bits of n >= 0
RECURSIVE BitLen(_)
BitLen(n) == IF n = 0 THEN 0 ELSE 1 + BitLen(n \div 2)

\* The finite value s * m * 2^t with m <= 2^Precision, made canonical.
Pack(sg, m, t) ==
  LET mm == IF m = 2^Precision THEN 2^(Precision - 1) ELSE m
      tt == IF m = 2^Precision THEN t + 1 ELSE t
  IN IF m = 0 THEN FZero
     ELSE IF tt > EMaxUlp THEN FInf(sg)
     ELSE sg * (2^Precision * (tt - EMinUlp) + mm)

\* The float nearest to sg * n * 2^e (ties to even); with sticky the exact value
\* lies strictly between n and n + 1 units, and n has Precision + 2 bits or more.
Rnd(sg, n, e, sticky) ==
  IF n = 0 THEN FZero
  ELSE LET t == Max(e + BitLen(n) - Precision, EMinUlp)
           d == t - e
       IN IF d <= 0 THEN Pack(sg, n * 2^(-d), t)
          ELSE IF d > 30 THEN FZero
          ELSE LET q == n \div 2^d
                   r == n % 2^d
                   h == 2^(d - 1)
                   up == r > h \/ (r = h /\ (sticky \/ q % 2 = 1))
               IN Pack(sg, IF up THEN q + 1 ELSE q, t)

\* A decimal literal num/den (num, den > 0) as the nearest float.
Lit(num, den) ==
  LET kk == Precision + 2 + BitLen(den)
  IN Rnd(1, (num * 2^kk) \div den, -kk, (num * 2^kk) % den # 0)

FNeg(a) == IF IsNaN(a) THEN a ELSE -a

\* a * b
FMul(a, b) ==
  IF IsNaN(a) \/ IsNaN(b) THEN FNaN
  ELSE IF IsInf(a) \/ IsInf(b)
       THEN IF IsZero(a) \/ IsZero(b) THEN FNaN ELSE FInf(Sign(a) * Sign(b))
  ELSE Rnd(Sign(a) * Sign(b), Mant(a) * Mant(b), Expo(a) + Expo(b), FALSE)

\* a + b
FAdd(a, b) ==
  IF IsNaN(a) \/ IsNaN(b) THEN FNaN
  ELSE IF IsInf(a) /\ IsInf(b) THEN (IF a = b THEN a ELSE FNaN)
  ELSE IF IsInf(a) THEN a
  ELSE IF IsInf(b) THEN b
  ELSE IF IsZero(a) THEN b
  ELSE IF IsZero(b) THEN a
  ELSE IF Expo(a) - Expo(b) > Precision + 2 THEN a
  ELSE IF Expo(b) - Expo(a) > Precision + 2 THEN b
  ELSE LET lo == Min(Expo(a), Expo(b))
           n == Sign(a) * Mant(a) * 2^(Expo(a) - lo)
                + Sign(b) * Mant(b) * 2^(Expo(b) - lo)
       IN Rnd(IF n < 0 THEN -1 ELSE 1, Abs(n), lo, FALSE)

RECURSIVE IsqrtIter(_, _, _)
IsqrtIter(n, r, b) ==
  IF b = 0 THEN r
  ELSE IF (r + b) * (r + b) <= n THEN IsqrtIter(n, r + b, b \div 2)
  ELSE IsqrtIter(n, r, b \div 2)

\* floor(sqrt(n)) for n >= 0, bit by bit from the highest bit the root can have
Isqrt(n) == IsqrtIter(n, 0, 2^(BitLen(n) \div 2))

\* a ** 0.5 for a >= 0 (correctly rounded square root)
FSqrt(a) ==
  IF IsNaN(a) \/ IsInf(a) \/ IsZero(a) THEN a
  ELSE LET kk == 2 * Precision + 4 + (Expo(a) % 2)
           n == Mant(a) * 2^kk
           r == Isqrt(n)
       IN Rnd(1, r, (Expo(a) - kk) \div 2, r * r # n)

\* a / b for b nonzero (Python raises ZeroDivisionError on a zero divisor)
FDiv(a, b) ==
  IF IsNaN(a) \/ IsNaN(b) THEN FNaN
  ELSE IF IsInf(a) THEN (IF IsInf(b) THEN FNaN ELSE FInf(Sign(a) * Sign(b)))
  ELSE IF IsInf(b) THEN FZero
  ELSE LET kk == 2 * Precision + 2
           n == Mant(a) * 2^kk
       IN Rnd(Sign(a) * Sign(b), n \div Mant(b), Expo(a) - Expo(b) - kk,
              n % Mant(b) # 0)

\* a < b
FLt(a, b) == ~IsNaN(a) /\ ~IsNaN(b) /\ a < b

\* a >= b
FGe(a, b) == ~IsNaN(a) /\ ~IsNaN(b) /\ ~FLt(a, b)

\* a == b
FEq(a, b) == ~IsNaN(a) /\ ~IsNaN(b) /\ a = b

FOne == Lit(1, 1)

\* ------------------------------------------------------------------ vectors
\* The components compare requests draw from: 0, the smallest subnormal (whose
\* square underflows to 0), 1/2, 1, -1, and 4 (whose square overflows the
\* scaled-down format).
Components ==
  {FZero, Rnd(1, 1, EMinUlp, FALSE), Lit(1, 2), FOne, FNeg(FOne), Lit(4, 1)}

SeqsUpTo(S, n) == UNION {[1..k -> S] : k \in 0..n}

Vectors == SeqsUpTo(Components, MaxDim)

\* zip(vector1, vector2, strict=True): the number of pairs, or a ValueError
ZipLenient(vector1, vector2) == [ok |-> TRUE, n |-> Min(Len(vector1), Len(vector2))]
ZipStrict(vector1, vector2) ==
  IF Len(vector1) = Len(vector2)
  THEN [ok |-> TRUE, n |-> Len(vector1)]
  ELSE [ok |-> FALSE, n |-> 0]

\* sum(a * b for a, b in zip(...)) over the first n pairs, left to right from 0
RECURSIVE SumProd(_, _, _)
SumProd(vector1, vector2, n) ==
  IF n = 0 THEN FZero
  ELSE FAdd(SumProd(vector1, vector2, n - 1), FMul(vector1[n], vector2[n]))

\* sum(a * a for a in vector) ** 0.5
Magnitude(vector) == FSqrt(SumProd(vector, vector, Len(vector)))

\* if magnitude1 == 0.0 or magnitude2 == 0.0
ZeroGuardNever(magnitude1, magnitude2) == FALSE
ZeroGuard(magnitude1, magnitude2) == FEq(magnitude1, FZero) \/ FEq(magnitude2, FZero)

NoValue == FZero

\* dot_product / (magnitude1 * magnitude2)
Quotient(dot_product, magnitude1, magnitude2) ==
  LET denominator == FMul(magnitude1, magnitude2)
  IN IF IsZero(denominator)
     THEN [err |-> "ZeroDivisionError", val |-> NoValue]
     ELSE [err |-> "none", val |-> FDiv(dot_product, denominator)]

calculate_cosine_similarity(vector1, vector2) ==
  LET pairs == ZipStrict(vector1, vector2)
      dot_product == SumProd(vector1, vector2, pairs.n)
      magnitude1 == Magnitude(vector1)
      magnitude2 == Magnitude(vector2)
  IN IF ~pairs.ok THEN [err |-> "ValueError", val |-> NoValue]
     ELSE IF ZeroGuard(magnitude1, magnitude2) THEN [err |-> "none", val |-> FZero]
     ELSE Quotient(dot_product, magnitude1, magnitude2)

\* threshold = 0.85
threshold == Lit(85, 100)

\* ------------------------------------------------------------------ texts
Chars == {"a", " "}
Texts == SeqsUpTo(Chars, MaxTextLen)
Batches == SeqsUpTo(Texts, MaxBatch)

\* not value.strip(): only whitespace, or nothing
IsBlank(text) == \A i \in 1..Len(text) : text[i] = " "

Dimension == 1024

\* The pretrained model behind the handle: a text's embedding, normalized
\* (normalize_embeddings=True), of the model's dimension, the same on every call.
RECURSIVE TextCode(_)
TextCode(text) ==
  IF text = <<>> THEN 0
  ELSE 3 * TextCode(SubSeq(text, 1, Len(text) - 1))
       + (IF text[Len(text)] = "a" THEN 1 ELSE 2)

ModelVector(text) ==
  [i \in 1..Dimension |-> IF i = 1 + (TextCode(text) % Dimension) THEN FOne ELSE FZero]

ZeroVector == [i \in 1..Dimension |-> FZero]

\* ------------------------------------------------------------------ requests and responses
NoRequest == [kind |-> "none", texts |-> <<>>, vector1 |-> <<>>, vector2 |-> <<>>]
NoResponse ==
  [status |-> "none", embeddings |-> <<>>, dimension |-> 0, count |-> 0,
   similarity |-> NoValue, is_duplicate |-> FALSE, threshold |-> NoValue]

Rejected == [NoResponse EXCEPT !.status = "422"]
ServerError == [NoResponse EXCEPT !.status = "500"]

\* EmbedRequest with min_length=1 alone, text_not_empty left out
EmbedRequestMinLength(text) == Len(text) >= 1

\* EmbedRequest: min_length=1 and text_not_empty
EmbedRequest(text) == Len(text) >= 1 /\ ~IsBlank(text)

\* EmbedBatchRequest: min_length=1 and validate_texts
EmbedBatchRequest(texts) ==
  /\ Len(texts) >= 1
  /\ texts # <<>>
  /\ \A i \in 1..Len(texts) : ~IsBlank(texts[i])

\* SimilarityRequest: min_length=1 and check_vector_not_empty on both fields,
\* check_same_dimension on vector2 when vector1 passed
check_same_dimension(value, vector1_valid, vector1) ==
  vector1_valid => Len(vector1) = Len(value)

SimilarityRequest(vector1, vector2) ==
  LET vector1_valid == Len(vector1) >= 1 /\ vector1 # <<>>
      vector2_valid == /\ Len(vector2) >= 1
                       /\ vector2 # <<>>
                       /\ check_same_dimension(vector2, vector1_valid, vector1)
  IN vector1_valid /\ vector2_valid

\* EmbedResponse: check_embedding_length
EmbedResponse(embedding, dimension) ==
  IF embedding = <<>> THEN ServerError
  ELSE [NoResponse EXCEPT !.status = "200", !.embeddings = <<embedding>>,
                          !.dimension = dimension]

\* EmbedBatchResponse: check_embeddings_not_empty
EmbedBatchResponse(embeddings, dimension, count) ==
  IF embeddings = <<>> \/ \E i \in 1..Len(embeddings) : embeddings[i] = <<>>
  THEN ServerError
  ELSE [NoResponse EXCEPT !.status = "200", !.embeddings = embeddings,
                          !.dimension = dimension, !.count = count]

\* SimilarityResponse: similarity has ge=-1.0, le=1.0
SimilarityResponse(similarity, is_duplicate, thresh) ==
  IF FGe(similarity, FNeg(FOne)) /\ FGe(FOne, similarity)
  THEN [NoResponse EXCEPT !.status = "200", !.similarity = similarity,
                          !.is_duplicate = is_duplicate, !.threshold = thresh]
  ELSE ServerError

\* POST /embed
embed_text(text) ==
  LET dimension == Dimension
      stub_embedding == ZeroVector
  IN EmbedResponse(stub_embedding, dimension)

\* embed_batch answering with one vector whatever the number of texts
embed_batch_one_vector(texts) == EmbedBatchResponse(<<ZeroVector>>, Dimension, Len(texts))

\* POST /embed/batch
embed_batch(texts) ==
  LET dimension == Dimension
      stub_embeddings == [i \in 1..Len(texts) |-> ZeroVector]
  IN EmbedBatchResponse(stub_embeddings, dimension, Len(texts))

\* is_duplicate = similarity >= threshold
IsDuplicateAbove(similarity, thresh) == FGe(similarity, thresh) /\ ~FEq(similarity, thresh)
IsDuplicate(similarity, thresh) == FGe(similarity, thresh)

\* POST /similarity
calculate_similarity(vector1, vector2) ==
  LET result == calculate_cosine_similarity(vector1, vector2)
      similarity == result.val
      is_duplicate == IsDuplicate(similarity, threshold)
  IN IF result.err # "none" THEN ServerError
     ELSE SimilarityResponse(similarity, is_duplicate, threshold)

\* ------------------------------------------------------------------ state
VARIABLES
  cuda,           \* torch.cuda.is_available() of this process
  instance,       \* EmbeddingModel._instance (0 is None)
  model,          \* object id -> its _model attribute (0 is None)
  nobjs,          \* EmbeddingModel objects allocated so far
  handles,        \* the SentenceTransformer handles built so far: their devices
  pc,             \* per caller: position in EmbeddingModel().<op>(...)
  op,             \* per caller: "get_model" | "encode" | "encode_batch"
  arg,            \* per caller: the texts passed (one for encode)
  self,           \* per caller: what EmbeddingModel() returned (0: not yet)
  got,            \* per caller: what get_model() returned (0: not yet)
  ret,            \* per caller: the vectors encode/encode_batch returned
  attempts,       \* per caller: constructions attempted within the current call
  req,            \* the last request to an HTTP handler or to the similarity function
  resp            \* and its response

provider == <<cuda, instance, model, nobjs, handles>>
callers == <<pc, op, arg, self, got, ret, attempts>>
api == <<req, resp>>
vars == <<provider, callers, api>>

constructions == Len(handles)

Init ==
  /\ cuda \in BOOLEAN
  /\ instance = 0
  /\ model = [o \in ObjIds |-> 0]
  /\ nobjs = 0
  /\ handles = <<>>
  /\ pc = [t \in Threads |-> "idle"]
  /\ op = [t \in Threads |-> "get_model"]
  /\ arg = [t \in Threads |-> <<>>]
  /\ self = [t \in Threads |-> 0]
  /\ got = [t \in Threads |-> 0]
  /\ ret = [t \in Threads |-> <<>>]
  /\ attempts = [t \in Threads |-> 0]
  /\ req = NoRequest
  /\ resp = NoResponse

\* ------------------------------------------------------------------ the provider's callers
Resting == {"idle", "done", "raised"}

\* What the callers pass: encode one text, encode_batch a list of them.
CallTexts == {<<"a">>}
CallArgs(o) ==
  IF o = "get_model" THEN {<<>>}
  ELSE IF o = "encode" THEN {<<text>> : text \in CallTexts}
  ELSE {<<t1, t2>> : t1 \in CallTexts, t2 \in CallTexts}

\* A caller begins EmbeddingModel().<o>(...).
StartCall(t) ==
  /\ pc[t] \in Resting
  /\ \E o \in {"get_model", "encode", "encode_batch"} : \E a \in CallArgs(o) :
       /\ op' = [op EXCEPT ![t] = o]
       /\ arg' = [arg EXCEPT ![t] = a]
  /\ pc' = [pc EXCEPT ![t] = "new_check"]
  /\ self' = [self EXCEPT ![t] = 0]
  /\ got' = [got EXCEPT ![t] = 0]
  /\ ret' = [ret EXCEPT ![t] = <<>>]
  /\ attempts' = [attempts EXCEPT ![t] = 0]
  /\ UNCHANGED <<provider, api>>

InstanceIsNoneAlways == TRUE

\* __new__: if cls._instance is None
InstanceIsNone == instance = 0

NewCheck(t) ==
  /\ pc[t] = "new_check"
  /\ pc' = [pc EXCEPT ![t] = IF InstanceIsNone THEN "new_create" ELSE "new_ret"]
  /\ UNCHANGED <<provider, op, arg, self, got, ret, attempts, api>>

\* __new__ loading the model as it creates the instance (an eager singleton)
NewCreateLoading(t) ==
  /\ pc[t] = "new_create"
  /\ nobjs' = nobjs + 1
  /\ instance' = nobjs + 1
  /\ handles' = Append(handles, IF cuda THEN "cuda" ELSE "cpu")
  /\ model' = [model EXCEPT ![nobjs + 1] = Len(handles) + 1]
  /\ pc' = [pc EXCEPT ![t] = "new_ret"]
  /\ UNCHANGED <<cuda, op, arg, self, got, ret, attempts, api>>

\* __new__: cls._instance = super().__new__(cls)
NewCreate(t) ==
  /\ pc[t] = "new_create"
  /\ nobjs' = nobjs + 1
  /\ instance' = nobjs + 1
  /\ pc' = [pc EXCEPT ![t] = "new_ret"]
  /\ UNCHANGED <<cuda, model, handles, op, arg, self, got, ret, attempts, api>>

\* __new__: return cls._instance
NewReturn(t) ==
  /\ pc[t] = "new_ret"
  /\ self' = [self EXCEPT ![t] = instance]
  /\ pc' = [pc EXCEPT ![t] = "gm_check"]
  /\ UNCHANGED <<provider, op, arg, got, ret, attempts, api>>

ModelIsNoneAlways(o) == TRUE

\* get_model: if self._model is None
ModelIsNone(o) == model[o] = 0

GmCheck(t) ==
  /\ pc[t] = "gm_check"
  /\ pc' = [pc EXCEPT ![t] = IF ModelIsNone(self[t]) THEN "gm_load" ELSE "gm_ret"]
  /\ UNCHANGED <<provider, op, arg, self, got, ret, attempts, api>>

\* get_model: device = "cuda" if torch.cuda.is_available() else "cpu"
Device == IF cuda THEN "cuda" ELSE "cpu"

\* get_model: self._model = SentenceTransformer(..., device=device) succeeds
GmLoadOk(t) ==
  /\ pc[t] = "gm_load"
  /\ handles' = Append(handles, Device)
  /\ model' = [model EXCEPT ![self[t]] = Len(handles) + 1]
  /\ attempts' = [attempts EXCEPT ![t] = @ + 1]
  /\ pc' = [pc EXCEPT ![t] = "gm_ret"]
  /\ UNCHANGED <<cuda, instance, nobjs, op, arg, self, got, ret, api>>

\* A failed construction swallowed: get_model carries on as if it had worked.
GmLoadFailSwallowed(t) ==
  /\ pc[t] = "gm_load"
  /\ attempts' = [attempts EXCEPT ![t] = @ + 1]
  /\ pc' = [pc EXCEPT ![t] = "gm_ret"]
  /\ UNCHANGED <<provider, op, arg, self, got, ret, api>>

\* get_model: SentenceTransformer(...) raises; nothing in get_model, encode or
\* encode_batch catches it
GmLoadFail(t) ==
  /\ pc[t] = "gm_load"
  /\ attempts' = [attempts EXCEPT ![t] = @ + 1]
  /\ pc' = [pc EXCEPT ![t] = "raised"]
  /\ UNCHANGED <<provider, op, arg, self, got, ret, api>>

\* get_model: return self._model
GmReturn(t) ==
  /\ pc[t] = "gm_ret"
  /\ got' = [got EXCEPT ![t] = model[self[t]]]
  /\ pc' = [pc EXCEPT ![t] = IF op[t] = "get_model" THEN "done" ELSE "encode"]
  /\ UNCHANGED <<provider, op, arg, self, ret, attempts, api>>

\* encode: model.encode(text, normalize_embeddings=True).tolist()
encode(text) == ModelVector(text)

\* encode_batch: model.encode(texts, normalize_embeddings=True, batch_size=32).tolist()
encode_batch(texts) == [i \in 1..Len(texts) |-> ModelVector(texts[i])]

\* encode / encode_batch after get_model() returned
Encode(t) ==
  /\ pc[t] = "encode"
  /\ ret' = [ret EXCEPT ![t] = IF op[t] = "encode" THEN <<encode(arg[t][1])>>
                                ELSE encode_batch(arg[t])]
  /\ pc' = [pc EXCEPT ![t] = "done"]
  /\ UNCHANGED <<provider, op, arg, self, got, attempts, api>>

Step(t) ==
  \/ StartCall(t)
  \/ NewCheck(t)
  \/ NewCreate(t)
  \/ NewReturn(t)
  \/ GmCheck(t)
  \/ GmLoadOk(t)
  \/ GmLoadFail(t)
  \/ GmReturn(t)
  \/ Encode(t)

\* ------------------------------------------------------------------ the HTTP layer
\* POST /embed: FastAPI validates the body, then calls the handler.
PostEmbed(text) ==
  /\ req' = [NoRequest EXCEPT !.kind = "embed", !.texts = <<text>>]
  /\ resp' = IF EmbedRequest(text) THEN embed_text(text) ELSE Rejected
  /\ UNCHANGED <<provider, callers>>

\* POST /embed/batch
PostEmbedBatch(texts) ==
  /\ req' = [NoRequest EXCEPT !.kind = "embed_batch", !.texts = texts]
  /\ resp' = IF EmbedBatchRequest(texts) THEN embed_batch(texts) ELSE Rejected
  /\ UNCHANGED <<provider, callers>>

\* POST /similarity
PostSimilarity(vector1, vector2) ==
  /\ req' = [NoRequest EXCEPT !.kind = "similarity", !.vector1 = vector1,
                              !.vector2 = vector2]
  /\ resp' = IF SimilarityRequest(vector1, vector2)
             THEN calculate_similarity(vector1, vector2)
             ELSE Rejected
  /\ UNCHANGED <<provider, callers>>

\* calculate_cosine_similarity called as a function, past the validators
CallCosine(vector1, vector2) ==
  /\ req' = [NoRequest EXCEPT !.kind = "cosine", !.vector1 = vector1,
                              !.vector2 = vector2]
  /\ resp' = LET result == calculate_cosine_similarity(vector1, vector2)
             IN IF result.err = "none"
                THEN [NoResponse EXCEPT !.status = "returned",
                                        !.similarity = result.val]
                ELSE [NoResponse EXCEPT !.status = result.err]
  /\ UNCHANGED <<provider, callers>>

\* The response is sent and the request is over.
Deliver ==
  /\ req # NoRequest
  /\ req' = NoRequest
  /\ resp' = NoResponse
  /\ UNCHANGED <<provider, callers>>

\* The requests that arrive while the provider's callers run: the handlers that
\* compute (compare in Spec, all three in SeqSpec), each on one input.
FewTexts == {<<"a">>}
FewVectors == {<<FOne>>}

\* A request is served when no other is being served.
Free == req = NoRequest

Next ==
  \/ \E t \in Threads : Step(t)
  \/ Free /\ \E v1 \in FewVectors, v2 \in FewVectors : PostSimilarity(v1, v2)
  \/ Deliver

Spec == Init /\ [][Next]_vars

\* One call at a time: a call starts only when no other call is under way.
Alone(t) == \A u \in Threads \ {t} : pc[u] \in Resting

SeqNext ==
  \/ \E t \in Threads : Alone(t) /\ StartCall(t)
  \/ \E t \in Threads : NewCheck(t)
  \/ \E t \in Threads : NewCreate(t)
  \/ \E t \in Threads : NewReturn(t)
  \/ \E t \in Threads : GmCheck(t)
  \/ \E t \in Threads : GmLoadOk(t)
  \/ \E t \in Threads : GmLoadFail(t)
  \/ \E t \in Threads : GmReturn(t)
  \/ \E t \in Threads : Encode(t)
  \/ Free /\ \E text \in FewTexts : PostEmbed(text)
  \/ Free /\ \E text \in FewTexts : PostEmbedBatch(<<text>>)
  \/ Free /\ \E v1 \in FewVectors, v2 \in FewVectors : PostSimilarity(v1, v2)
  \/ Deliver

SeqSpec == Init /\ [][SeqNext]_vars

\* The HTTP layer and the similarity function over all bounded inputs.
ApiNext ==
  \/ Free /\ \E text \in Texts : PostEmbed(text)
  \/ Free /\ \E texts \in Batches : PostEmbedBatch(texts)
  \/ Free /\ \E v1 \in Vectors, v2 \in Vectors : PostSimilarity(v1, v2)
  \/ Free /\ \E v1 \in Vectors, v2 \in Vectors : CallCosine(v1, v2)
  \/ Deliver

ApiSpec == Init /\ [][ApiNext]_vars

\* ------------------------------------------------------------------ claims

\* C1: when callers race on the first get_model(), the model is constructed
\* exactly once and every caller receives the same handle.  (Spec)
C1_ConstructedOnceUnderRace ==
  /\ constructions <= 1
  /\ \A t \in Threads, u \in Threads : (got[t] # 0 /\ got[u] # 0) => got[t] = got[u]

\* C2: in a sequential run the first successful get_model() constructs the model
\* and every later call returns that handle: at most one construction, all
\* returned handles the same, and a loaded handle never cleared or replaced.
\* (SeqSpec)
C2_LoadedOnceSequential ==
  /\ [](/\ constructions <= 1
        /\ \A t \in Threads, u \in Threads :
             (got[t] # 0 /\ got[u] # 0) => got[t] = got[u])
  /\ [][\A o \in ObjIds : model[o] # 0 => model'[o] = model[o]]_vars

\* A later call has returned the handle the first call built, building nothing.
C2_Witness ==
  \E t \in Threads, u \in Threads :
    /\ pc[t] = "done" /\ attempts[t] = 1 /\ got[t] = 1
    /\ pc[u] = "done" /\ attempts[u] = 0 /\ got[u] = 1
    /\ constructions = 1

\* C3: an embed-single response carries encode(text) and an embed-batch
\* response carries encode_batch(texts), the provider's normalized embeddings.
\* (ApiSpec)
C3_EmbedIsProviderEncoding ==
  /\ (req.kind = "embed" /\ resp.status = "200")
       => resp.embeddings = <<encode(req.texts[1])>>
  /\ (req.kind = "embed_batch" /\ resp.status = "200")
       => resp.embeddings = encode_batch(req.texts)

\* C4: a compare result has is_duplicate exactly when its similarity is >= 0.85
\* (equal to 0.85 included), and its threshold field is 0.85.  (ApiSpec)
C4_DuplicateIffAtLeastThreshold ==
  (req.kind = "similarity" /\ resp.status = "200") =>
    /\ resp.is_duplicate <=> FGe(resp.similarity, Lit(85, 100))
    /\ resp.threshold = Lit(85, 100)

\* A compare whose similarity is exactly the threshold, classified a duplicate.
C4_Witness ==
  /\ req.kind = "similarity"
  /\ resp.status = "200"
  /\ resp.similarity = Lit(85, 100)
  /\ resp.is_duplicate

\* C6: a failed model construction propagates to its caller, is attempted once
\* within the call, caches no handle and returns no vector.  (Spec)
C6_ConstructionFailurePropagates ==
  /\ [](\A t \in Threads :
          pc[t] = "raised" => attempts[t] = 1 /\ got[t] = 0 /\ ret[t] = <<>>)
  /\ [][\A t \in Threads :
          (attempts'[t] > attempts[t] /\ handles' = handles) =>
            /\ pc'[t] = "raised"
            /\ attempts'[t] = 1
            /\ model' = model]_vars

\* An encode call whose construction failed: raised, and no handle cached.
C6_Witness ==
  \E t \in Threads :
    /\ pc[t] = "raised"
    /\ op[t] = "encode"
    /\ attempts[t] = 1
    /\ model[self[t]] = 0
    /\ ret[t] = <<>>

\* C7: calculate_cosine_similarity on vectors of different lengths fails with an
\* error and returns no number, and a compare request with such vectors is
\* rejected by validation before any similarity is computed.  (ApiSpec)
C7_LengthMismatchFails ==
  (req.kind \in {"cosine", "similarity"} /\ Len(req.vector1) # Len(req.vector2)) =>
    /\ req.kind = "cosine" => resp.status = "ValueError"
    /\ req.kind = "similarity" => resp.status = "422"
    /\ resp.similarity = NoValue

\* The function called with a longer and a shorter non-empty vector.
C7_Witness ==
  /\ req.kind = "cosine"
  /\ Len(req.vector1) = 2
  /\ Len(req.vector2) = 1
  /\ resp.status = "ValueError"

\* C8: with equal lengths and a magnitude that is exactly zero the similarity is
\* exactly 0.0, without a division fault, and the compare verdict is "not a
\* duplicate".  (ApiSpec)
C8_ZeroMagnitudeGivesZero ==
  (/\ req.kind \in {"cosine", "similarity"}
   /\ Len(req.vector1) = Len(req.vector2)
   /\ (req.kind = "cosine" \/ Len(req.vector1) >= 1)
   /\ (IsZero(Magnitude(req.vector1)) \/ IsZero(Magnitude(req.vector2)))) =>
    /\ resp.status = (IF req.kind = "cosine" THEN "returned" ELSE "200")
    /\ resp.similarity = FZero
    /\ ~resp.is_duplicate

\* A compare of the zero vector with a non-zero one.
C8_Witness ==
  /\ req.kind = "similarity"
  /\ req.vector1 = <<FZero, FZero>>
  /\ req.vector2 = <<FOne, FOne>>
  /\ resp.status = "200"
  /\ resp.similarity = FZero

\* C9: every compare request that passes validation yields a similarity in
\* [-1.0, 1.0], so its SimilarityResponse is always built.  (ApiSpec)
C9_SimilarityInRange ==
  (req.kind = "similarity" /\ SimilarityRequest(req.vector1, req.vector2)) =>
    /\ resp.status = "200"
    /\ FGe(resp.similarity, FNeg(FOne))
    /\ FGe(FOne, resp.similarity)

\* C10: across any sequence of EmbeddingModel() constructions one instance
\* exists and every construction returns it.  (SeqSpec)
C10_OneInstance ==
  /\ nobjs <= 1
  /\ \A t \in Threads : self[t] # 0 => self[t] = instance

\* Two constructions, one after the other, returned the one instance.
C10_Witness ==
  /\ nobjs = 1
  /\ \E t \in Threads, u \in Threads : t # u /\ self[t] = 1 /\ self[u] = 1

\* C11: an embed-single request whose text is empty or only whitespace, and an
\* embed-batch request whose list is empty or holds an empty or whitespace-only
\* entry, is rejected with a validation error (422) and carries no embedding.
\* (ApiSpec)
C11_BlankTextRejected ==
  /\ (/\ req.kind = "embed"
      /\ \A i \in 1..Len(req.texts[1]) : req.texts[1][i] = " ")
       => (resp.status = "422" /\ resp.embeddings = <<>>)
  /\ (/\ req.kind = "embed_batch"
      /\ \/ Len(req.texts) = 0
         \/ \E k \in 1..Len(req.texts) :
              \A i \in 1..Len(req.texts[k]) : req.texts[k][i] = " ")
       => (resp.status = "422" /\ resp.embeddings = <<>>)

\* A batch whose first text is fine and whose second is one space, rejected.
C11_Witness ==
  /\ req.kind = "embed_batch"
  /\ req.texts = << <<"a">>, <<" ">> >>
  /\ resp.status = "422"

\* C12: every accepted embed-batch request with n >= 1 texts is answered with
\* count = n and exactly n vectors, each as long as the dimension field says,
\* and that dimension is 1024, as in every embed-single response.  (ApiSpec)
C12_BatchShape ==
  /\ (req.kind = "embed_batch" /\ resp.status # "422") =>
       /\ resp.status = "200"
       /\ Len(req.texts) >= 1
       /\ resp.count = Len(req.texts)
       /\ Len(resp.embeddings) = Len(req.texts)
       /\ \A i \in 1..Len(resp.embeddings) : Len(resp.embeddings[i]) = resp.dimension
       /\ resp.dimension = 1024
  /\ (req.kind = "embed" /\ resp.status = "200") => resp.dimension = 1024

\* An accepted batch of two texts, answered with two vectors.
C12_Witness ==
  /\ req.kind = "embed_batch"
  /\ Len(req.texts) = 2
  /\ resp.status = "200"
  /\ resp.count = 2
  /\ Len(resp.embeddings) = 2

\* C13: the model handle (the _model attribute of every EmbeddingModel object,
\* and the handles built) changes only in the loading step of get_model();
\* constructing EmbeddingModel instances and serving compare requests leave it
\* unchanged, and it is unloaded as long as nothing was constructed.  (Spec)
C13_HandleChangesOnlyInGetModel ==
  /\ [][(model' # model \/ handles' # handles) =>
          \E t \in Threads :
            /\ pc[t] = "gm_load"
            /\ pc'[t] = "gm_ret"
            /\ attempts'[t] = attempts[t] + 1]_vars
  /\ [][(req' # req \/ resp' # resp \/ instance' # instance \/ nobjs' # nobjs
           \/ self' # self) =>
          (model' = model /\ handles' = handles)]_vars
  /\ [](constructions = 0 => \A o \in ObjIds : model[o] = 0)

\* An instance was constructed and a compare request served, and the model is
\* still unloaded: no get_model() has reached its loading step.
C13_Witness ==
  /\ req.kind = "similarity"
  /\ resp.status = "200"
  /\ nobjs = 1
  /\ \E t \in Threads : self[t] = 1 /\ pc[t] = "gm_check"
  /\ constructions = 0
  /\ \A o \in ObjIds : model[o] = 0

====
